---- MODULE Spec2Model ----
(***************************************************************************)
(* TinyCandle (ATtiny13): the candle simulation updateCandle, its Galois   *)
(* LFSR prng, and the sleep/wake sequence of main, modelled from           *)
(* software/sources/main.c.                                                *)
(*                                                                         *)
(* Target widths (avr-gcc): int is 16 bits, so int16_t/int and             *)
(* uint16_t/unsigned int coincide; uint32_t is 32 bits; registers are 8    *)
(* bits.  Conversions to a signed type wrap (two's complement) and >> on a *)
(* negative int is an arithmetic shift.                                    *)
(***************************************************************************)
EXTENDS Integers, Naturals, FiniteSets, Sequences, TLC

\* ------------------------------------------------------------------ pins
LED0 == 0
LED1 == 1
BUTTON == 2
MOSFET == 4

\* ------------------------------------------- candle simulation parameters
MINUNCALM == 5120
MAXUNCALM == 30720
UNCALMINC == 20
MAXDEV == 100

\* --------------------------------------------------------- model bounds
\* number of updateCandle calls explored in one run
MaxTicks == 2600
\* number of updateCandle calls explored in one run of main
MaxMainTicks == 8
\* number of button presses in one run of main (one that is held at the
\* start included)
MaxPresses == 4
\* number of prng calls explored in one run of the generator alone
MaxCalls == 65536
\* the generator alone is driven with maxvalue in 1..MaxSmallArg and a few
\* large arguments
MaxSmallArg == 1
\* number of start values of rn explored for the candle simulation
NumSeeds == 6

\* ------------------------------------------------- fixed-width arithmetic
\* conversion to uint16_t / unsigned int
ToU16(x) == x % 65536

\* conversion to int16_t / int (wraps)
ToS16(x) == IF x % 65536 >= 32768 THEN (x % 65536) - 65536 ELSE x % 65536

\* conversion to an 8-bit register
ToU8(x) == x % 256

\* C's integer division: truncation toward zero (b > 0)
TruncDiv(a, b) == IF a >= 0 THEN a \div b ELSE -((-a) \div b)

\* 1 << n
Bit(n) == 2 ^ n

RECURSIVE AndBits(_, _, _)
AndBits(a, b, n) ==
  IF n = 0 \/ a = 0 \/ b = 0 THEN 0
  ELSE (a % 2) * (b % 2) + 2 * AndBits(a \div 2, b \div 2, n - 1)

RECURSIVE XorBits(_, _, _)
XorBits(a, b, n) ==
  IF n = 0 THEN 0
  ELSE IF b = 0 THEN a % Bit(n)
  ELSE (((a % 2) + (b % 2)) % 2) + 2 * XorBits(a \div 2, b \div 2, n - 1)

RECURSIVE OrBits(_, _, _)
OrBits(a, b, n) ==
  IF n = 0 THEN 0
  ELSE IF b = 0 THEN a % Bit(n)
  ELSE (IF (a % 2) + (b % 2) > 0 THEN 1 ELSE 0) + 2 * OrBits(a \div 2, b \div 2, n - 1)

\* the operators &, ^, |, ~ and unary - on 16-bit unsigned operands
And16(a, b) == AndBits(a, b, 16)
Xor16(a, b) == XorBits(a, b, 16)
Neg16(a) == ToU16(0 - a)

\* the operators &, |, ~ on 8-bit registers
And8(a, b) == AndBits(a, b, 8)
Or8(a, b) == OrBits(a, b, 8)
Not8(a) == 255 - a

\* ----------------------------------------------------------------- state
VARIABLES
  centerx, centery,   \* int16_t: position of the flame centre
  xvel, yvel,         \* int16_t: velocity of the flame centre
  uncalm,             \* uint16_t: agitation
  uncalmdir,          \* int16_t: +UNCALMINC or -UNCALMINC
  cnt,                \* uint8_t: tick counter
  rn,                 \* uint16_t: register of the random generator
  movx, movy,         \* int: the pokes drawn by the last updateCandle
  rawx, rawy,         \* centerx, centery between lines 86 and 89
  OCR0A, OCR0B,       \* 8-bit PWM compare registers
  DDRB, PORTB,        \* 8-bit data direction and port registers
  pinb2,              \* level of the button pin PB2 (0 = pressed, pull-up)
  pcif,               \* GIFR.PCIF: pin change interrupt flag
  iflag,              \* SREG.I: global interrupt enable
  se,                 \* MCUCR.SE: sleep enable
  pc,                 \* position of main
  mulovf,             \* what the build does on overflow of the int product
  ticks,              \* history: number of updateCandle calls so far
  damped,             \* history: the last updateCandle scaled the velocity
  pressRead,          \* history: main read the button as pressed (line 145)
  relRead,            \* history: main read it as released since (line 149)
  lvlchg,             \* history: the pin level changed since line 114 ran
  presses,            \* history: number of presses of the button so far
  naps,               \* history: number of times the CPU halted in line 119
  wakes,              \* history: number of times the halt was ended
  seed,               \* history: value of rn at start
  calls,              \* history: number of prng calls so far
  maxvalue, ret       \* argument and return value of the last prng call

flameVars == <<centerx, centery, xvel, yvel, uncalm, uncalmdir, cnt, rn,
               movx, movy, rawx, rawy, OCR0A, OCR0B, ticks, damped>>
histVars == <<lvlchg, presses, naps, wakes>>
powerVars == <<DDRB, PORTB, pinb2, pcif, iflag, se, pc, pressRead, relRead,
               histVars>>
prngVars == <<seed, calls, maxvalue, ret>>
vars == <<flameVars, powerVars, prngVars, mulovf>>

\* ------------------------------------------------------------------ prng
\* feedback taps of the Galois LFSR
TAPS == 46080

\* variant: the low bit is not negated before masking the taps
LfsrStepNoNeg(r) == Xor16(r \div 2, And16(And16(r, 1), TAPS))

\* variant: one tap (bit 10) is missing from the mask
LfsrStepWrongTaps(r) == Xor16(r \div 2, And16(Neg16(And16(r, 1)), TAPS - 1024))

\* line 64: rn = (rn >> 0x01U) ^ (-(rn & 0x01U) & 0xB400U)
LfsrStep(r) == Xor16(r \div 2, And16(Neg16(And16(r, 1)), TAPS))

\* variant: the product is shifted by 15 instead of 16
ScaleRnShift15(m, r) ==
  ToU16(((m * (r \div 256)) + ((m * (r % 256)) \div 256)) \div 128)

\* line 65: (maxvalue * rn) >> 16 as uint16_t, the product taken in uint32_t.
\* For maxvalue < 2^16 the product is below 2^32; it is formed from the two
\* bytes of r so that no intermediate value leaves the checker's integers:
\* (m*r) >> 16 = (m*hi(r) + ((m*lo(r)) >> 8)) >> 8.
ScaleRn(m, r) ==
  ToU16(((m * (r \div 256)) + ((m * (r % 256)) \div 256)) \div 256)

\* ---------------------------------------------------------- updateCandle
\* variant: the poke also reads the button pin
PokeReadsPin(u, r) ==
  ToS16(ToU16(ScaleRn(u \div 256, r) - (u \div 512) + (1 - pinb2)))

\* line 74/75: prng(uncalm>>8) - (uncalm>>9), unsigned, stored in an int
Poke(u, r) == ToS16(ToU16(ScaleRn(u \div 256, r) - (u \div 512)))

\* variant: the upper test allows one more increment
NextUncalmdirLate(u, d) ==
  LET d1 == IF u < MINUNCALM THEN UNCALMINC ELSE d
  IN  IF u > MAXUNCALM + UNCALMINC THEN -UNCALMINC ELSE d1

\* variant: the tests include the bounds themselves
NextUncalmdirEager(u, d) ==
  LET d1 == IF u <= MINUNCALM THEN UNCALMINC ELSE d
  IN  IF u >= MAXUNCALM THEN -UNCALMINC ELSE d1

\* variant: the lower test is missing
NextUncalmdirNoFloor(u, d) == IF u > MAXUNCALM THEN -UNCALMINC ELSE d

\* variant: the upper test is missing
NextUncalmdirNoCeiling(u, d) == IF u < MINUNCALM THEN UNCALMINC ELSE d

\* lines 78 and 81: the two direction tests, in order
NextUncalmdir(u, d) ==
  LET d1 == IF u < MINUNCALM THEN UNCALMINC ELSE d
  IN  IF u > MAXUNCALM THEN -UNCALMINC ELSE d1

\* line 82: uncalm += uncalmdir (unsigned 16-bit addition)
NextUncalm(u, d) == ToU16(u + d)

\* lines 85/86: center += mov + (vel >> 2), stored in int16_t
MoveCenter(c, m, v) == ToS16(c + m + (v \div 4))

\* variant: the lower limit is missing
RangeLimitNoLower(c) == IF c > MAXDEV THEN MAXDEV ELSE c

\* variant: the limits are one step too wide
RangeLimitWide(c) ==
  LET c1 == IF c < -(MAXDEV + 1) THEN -(MAXDEV + 1) ELSE c
  IN  IF c1 > MAXDEV + 1 THEN MAXDEV + 1 ELSE c1

\* lines 89-92: range limits
RangeLimit(c) ==
  LET c1 == IF c < -MAXDEV THEN -MAXDEV ELSE c
  IN  IF c1 > MAXDEV THEN MAXDEV ELSE c1

\* variant: the counter wraps from 254 to 0
NextCntMod255(c) == (c + 1) % 255

\* line 95: cnt++ on uint8_t
NextCnt(c) == ToU8(c + 1)

\* line 96: ! (cnt & 3)
DampTick(c) == And8(c, 3) = 0

\* lines 98/99: (vel * 999) / 1000 in int.  The product overflows int for
\* |vel| > 32, which is undefined: the build either wraps the product to 16
\* bits (what the 16-bit multiply instruction sequence leaves) or yields the
\* exact quotient.
Attenuate(v, o) ==
  IF o = "wrap" THEN TruncDiv(ToS16(v * 999), 1000) ELSE TruncDiv(v * 999, 1000)

\* variant: the sign of the spring term is reversed
SpringAdd(v, c) == ToS16(v + c)

\* lines 103/104: vel -= center, stored in int16_t
Spring(v, c) == ToS16(v - c)

\* lines 107/108: OCR0x = 155 + center, stored in an 8-bit register
Duty(c) == ToU8(155 + c)

updateCandle ==
  /\ ticks < MaxTicks
  /\ LET r1 == LfsrStep(rn)
         r2 == LfsrStep(r1)
         mx == Poke(uncalm, r1)
         my == Poke(uncalm, r2)
         dir == NextUncalmdir(uncalm, uncalmdir)
         sx == MoveCenter(centerx, mx, xvel)
         sy == MoveCenter(centery, my, yvel)
         cx == RangeLimit(sx)
         cy == RangeLimit(sy)
         c == NextCnt(cnt)
         vx == IF DampTick(c) THEN Attenuate(xvel, mulovf) ELSE xvel
         vy == IF DampTick(c) THEN Attenuate(yvel, mulovf) ELSE yvel
     IN  /\ rn' = r2
         /\ maxvalue' = uncalm \div 256
         /\ ret' = ScaleRn(uncalm \div 256, r2)
         /\ calls' = calls + 2
         /\ movx' = mx
         /\ movy' = my
         /\ rawx' = sx
         /\ rawy' = sy
         /\ uncalmdir' = dir
         /\ uncalm' = NextUncalm(uncalm, dir)
         /\ centerx' = cx
         /\ centery' = cy
         /\ cnt' = c
         /\ damped' = DampTick(c)
         /\ xvel' = Spring(vx, cx)
         /\ yvel' = Spring(vy, cy)
         /\ OCR0A' = Duty(cx)
         /\ OCR0B' = Duty(cy)
         /\ ticks' = ticks + 1

\* ------------------------------------------------------- initial states
\* lines 51-57, and the registers as lines 127-139 of main leave them
InitFlame ==
  /\ centerx = MAXDEV
  /\ centery = MAXDEV \div 2
  /\ xvel = 0
  /\ yvel = 0
  /\ uncalm = MINUNCALM
  /\ uncalmdir = UNCALMINC
  /\ cnt = 0
  /\ movx = 0
  /\ movy = 0
  /\ rawx = centerx
  /\ rawy = centery
  /\ OCR0A = 0
  /\ OCR0B = 0
  /\ ticks = 0
  /\ damped = FALSE
  /\ mulovf \in {"wrap", "exact"}

InitPower ==
  /\ DDRB = Bit(LED0) + Bit(LED1) + Bit(MOSFET)
  /\ PORTB = Or8(0, Bit(BUTTON) + Bit(MOSFET))
  /\ pinb2 \in {0, 1}
  /\ pcif = 0
  /\ iflag = 0
  /\ se = 0
  /\ pc = "update"
  /\ pressRead = FALSE
  /\ relRead = FALSE
  /\ lvlchg = FALSE
  /\ presses = 1 - pinb2
  /\ naps = 0
  /\ wakes = 0

InitPrng ==
  /\ seed = rn
  /\ calls = 0
  /\ maxvalue = 0
  /\ ret = 0

\* ------------------------------------- the candle simulation on its own
\* start values of rn: 0 (what a zero-initialised register holds), 1, and
\* further values spread over the 16-bit range
SeedOf(i) == IF i = 0 THEN 0 ELSE ToU16(1 + (i - 1) * 44256)

Seeds == {SeedOf(i) : i \in 0..(NumSeeds - 1)}

InitCandle ==
  /\ rn \in Seeds
  /\ InitFlame
  /\ InitPower
  /\ InitPrng

CandleTick == updateCandle /\ UNCHANGED <<powerVars, seed, mulovf>>

NextCandle == CandleTick

SpecCandle == InitCandle /\ [][NextCandle]_vars

\* a step that counts a tick; under NextCandle it is a CandleTick, and it is
\* possible exactly when CandleTick is
TickDue == ticks < MaxTicks /\ ticks' = ticks + 1

\* the main loop never ends (line 142): the next tick always comes
SpecCandleFair == SpecCandle /\ WF_ticks(TickDue)

\* --------------------------------------------- the generator on its own
\* arguments the generator is driven with: the smallest ones, the first and
\* the largest uncalm>>8 of updateCandle, and the largest 16-bit one
MaxvalueInputs == (1..MaxSmallArg) \cup {20, 120, 65535}

\* start values of the generator run: 0 and 1
PrngSeeds == {SeedOf(0), SeedOf(1)}

\* lines 63-66: one call prng(m)
prng(m) ==
  LET r == LfsrStep(rn)
  IN  /\ rn' = r
      /\ ret' = ScaleRn(m, r)
      /\ maxvalue' = m

\* a client other than updateCandle calls prng, before the first tick; the
\* run is followed until rn is back at its start value
PrngCall ==
  /\ ticks = 0
  /\ calls < MaxCalls
  /\ calls = 0 \/ rn # seed
  /\ \E m \in MaxvalueInputs : prng(m)
  /\ calls' = calls + 1
  /\ UNCHANGED <<centerx, centery, xvel, yvel, uncalm, uncalmdir, cnt,
                 movx, movy, rawx, rawy, OCR0A, OCR0B, ticks, damped,
                 powerVars, mulovf, seed>>

InitGen ==
  /\ rn \in PrngSeeds
  /\ InitFlame
  /\ mulovf = "wrap"
  /\ InitPower
  /\ pinb2 = 1
  /\ InitPrng

\* the program's own calls: updateCandle from the initial state
PrngCandleTick == calls = 2 * ticks /\ CandleTick

NextPrng == PrngCall \/ PrngCandleTick

SpecPrng == InitGen /\ [][NextPrng]_vars

\* ------------------------------------------------------------------ main
\* pc: "update" line 143, "poll" line 145, "off" lines 146-148,
\* "release1" lines 149-150, "sleep" lines 113-115, "cli" lines 116-117,
\* "sei" line 118, "sleepcpu" line 119, "asleep" the CPU halted in line 119,
\* "wake" lines 120-121 and 152-154, "release2" line 155 and 158.
LEDS == Bit(LED0) + Bit(LED1)

\* variant: rn has an initialiser
InitMainSeeded ==
  /\ rn = 1
  /\ InitFlame
  /\ InitPower
  /\ InitPrng

\* rn has no initialiser: static storage, zero at start
InitMain ==
  /\ rn = 0
  /\ InitFlame
  /\ InitPower
  /\ InitPrng

\* line 143
MainUpdate ==
  /\ pc = "update"
  /\ ticks < MaxMainTicks
  /\ updateCandle
  /\ pc' = "poll"
  /\ UNCHANGED <<DDRB, PORTB, pinb2, pcif, iflag, se, pressRead, relRead,
                 seed, mulovf>>
  /\ UNCHANGED histVars

\* line 145: if (~PINB & (1<<BUTTON)); not pressed: line 158 and back to 143
PollButton ==
  /\ pc = "poll"
  /\ IF pinb2 = 0
     THEN /\ pc' = "off"
          /\ pressRead' = TRUE
          /\ relRead' = FALSE
     ELSE /\ pc' = "update"
          /\ UNCHANGED <<pressRead, relRead>>
  /\ UNCHANGED <<flameVars, prngVars, mulovf, DDRB, PORTB, pinb2, pcif,
                 iflag, se>>
  /\ UNCHANGED histVars

\* variant: the MOSFET is left on
SwitchOffLedsOnly ==
  /\ pc = "off"
  /\ DDRB' = Bit(MOSFET)
  /\ pc' = "release1"
  /\ UNCHANGED <<flameVars, prngVars, mulovf, PORTB, pinb2, pcif, iflag, se,
                 pressRead, relRead>>
  /\ UNCHANGED histVars

\* lines 146-148: LED pins as input, MOSFET off, debounce delay
SwitchOff ==
  /\ pc = "off"
  /\ DDRB' = Bit(MOSFET)
  /\ PORTB' = And8(PORTB, Not8(Bit(MOSFET)))
  /\ pc' = "release1"
  /\ UNCHANGED <<flameVars, prngVars, mulovf, pinb2, pcif, iflag, se,
                 pressRead, relRead>>
  /\ UNCHANGED histVars

\* lines 149-150: the loop is left when the button reads released
WaitRelease1 ==
  /\ pc = "release1"
  /\ pinb2 = 1
  /\ relRead' = TRUE
  /\ pc' = "sleep"
  /\ UNCHANGED <<flameVars, prngVars, mulovf, DDRB, PORTB, pinb2, pcif,
                 iflag, se, pressRead>>
  /\ UNCHANGED histVars

\* lines 113-115: GIFR |= (1<<PCIF) clears the flag
SleepClearFlag ==
  /\ pc = "sleep"
  /\ pcif' = 0
  /\ pc' = "cli"
  /\ UNCHANGED <<flameVars, prngVars, mulovf, DDRB, PORTB, pinb2, iflag, se,
                 pressRead, relRead>>
  /\ lvlchg' = FALSE
  /\ UNCHANGED <<presses, naps, wakes>>

\* lines 116-117: cli(); sleep_enable()
SleepCli ==
  /\ pc = "cli"
  /\ iflag' = 0
  /\ se' = 1
  /\ pc' = "sei"
  /\ UNCHANGED <<flameVars, prngVars, mulovf, DDRB, PORTB, pinb2, pcif,
                 pressRead, relRead>>
  /\ UNCHANGED histVars

\* line 118: sei(); the instruction after it runs before any interrupt
SleepSei ==
  /\ pc = "sei"
  /\ iflag' = 1
  /\ pc' = "sleepcpu"
  /\ UNCHANGED <<flameVars, prngVars, mulovf, DDRB, PORTB, pinb2, pcif, se,
                 pressRead, relRead>>
  /\ UNCHANGED histVars

\* line 119: sleep_cpu() halts the CPU
SleepCpu ==
  /\ pc = "sleepcpu"
  /\ se = 1
  /\ pc' = "asleep"
  /\ UNCHANGED <<flameVars, prngVars, mulovf, DDRB, PORTB, pinb2, pcif,
                 iflag, se, pressRead, relRead>>
  /\ naps' = naps + 1
  /\ UNCHANGED <<lvlchg, presses, wakes>>

\* variant: the halt also ends with no pin change interrupt pending
WakeOnTimeout ==
  /\ pc = "asleep"
  /\ iflag = 1
  /\ pcif' = 0
  /\ pc' = "wake"
  /\ UNCHANGED <<flameVars, prngVars, mulovf, DDRB, PORTB, pinb2, iflag, se,
                 pressRead, relRead>>
  /\ wakes' = wakes + 1
  /\ UNCHANGED <<lvlchg, presses, naps>>

\* line 163 while halted: the pending pin change interrupt ends the halt
Wake ==
  /\ pc = "asleep"
  /\ iflag = 1
  /\ pcif = 1
  /\ pcif' = 0
  /\ pc' = "wake"
  /\ UNCHANGED <<flameVars, prngVars, mulovf, DDRB, PORTB, pinb2, iflag, se,
                 pressRead, relRead>>
  /\ wakes' = wakes + 1
  /\ UNCHANGED <<lvlchg, presses, naps>>

\* variant: the compare registers are cleared when the PWM is switched on
SleepReturnClearsDuty ==
  /\ pc = "wake"
  /\ se' = 0
  /\ DDRB' = Bit(LED0) + Bit(LED1) + Bit(MOSFET)
  /\ PORTB' = Or8(PORTB, Bit(MOSFET))
  /\ OCR0A' = 0
  /\ OCR0B' = 0
  /\ pc' = "release2"
  /\ UNCHANGED <<centerx, centery, xvel, yvel, uncalm, uncalmdir, cnt, rn,
                 movx, movy, rawx, rawy, ticks, damped, prngVars, mulovf,
                 pinb2, pcif, iflag, pressRead, relRead>>
  /\ UNCHANGED histVars

\* lines 120-121 and 152-154: sleep_disable(), LED pins as output, MOSFET on
SleepReturn ==
  /\ pc = "wake"
  /\ se' = 0
  /\ DDRB' = Bit(LED0) + Bit(LED1) + Bit(MOSFET)
  /\ PORTB' = Or8(PORTB, Bit(MOSFET))
  /\ pc' = "release2"
  /\ UNCHANGED <<flameVars, prngVars, mulovf, pinb2, pcif, iflag,
                 pressRead, relRead>>
  /\ UNCHANGED histVars

\* variant: no wait for the release of the button after the halt
WaitRelease2Skip ==
  /\ pc = "release2"
  /\ pressRead' = FALSE
  /\ pc' = "update"
  /\ UNCHANGED <<flameVars, prngVars, mulovf, DDRB, PORTB, pinb2, pcif,
                 iflag, se, relRead>>
  /\ UNCHANGED histVars

\* lines 155 and 158: the loop is left when the button reads released
WaitRelease2 ==
  /\ pc = "release2"
  /\ pinb2 = 1
  /\ pressRead' = FALSE
  /\ pc' = "update"
  /\ UNCHANGED <<flameVars, prngVars, mulovf, DDRB, PORTB, pinb2, pcif,
                 iflag, se, relRead>>
  /\ UNCHANGED histVars

\* line 163 while running: the empty handler runs and the flag is cleared
Isr ==
  /\ iflag = 1
  /\ pcif = 1
  /\ pc \notin {"sleepcpu", "asleep"}
  /\ pcif' = 0
  /\ UNCHANGED <<flameVars, prngVars, mulovf, DDRB, PORTB, pinb2, iflag, se,
                 pc, pressRead, relRead>>
  /\ UNCHANGED histVars

\* lines 135-136: any level change of the button pin sets the flag
ButtonChange ==
  /\ pinb2 = 0 \/ presses < MaxPresses
  /\ pinb2' = 1 - pinb2
  /\ pcif' = 1
  /\ lvlchg' = TRUE
  /\ presses' = IF pinb2 = 1 THEN presses + 1 ELSE presses
  /\ UNCHANGED <<naps, wakes>>
  /\ UNCHANGED <<flameVars, prngVars, mulovf, DDRB, PORTB, iflag, se, pc,
                 pressRead, relRead>>

Next ==
  \/ MainUpdate
  \/ PollButton
  \/ SwitchOff
  \/ WaitRelease1
  \/ SleepClearFlag
  \/ SleepCli
  \/ SleepSei
  \/ SleepCpu
  \/ Wake
  \/ SleepReturn
  \/ WaitRelease2
  \/ Isr
  \/ ButtonChange

Spec == InitMain /\ [][Next]_vars

\* the instructions of main and sleep(): the CPU executes the next one
\* whenever it is not halted and the loop it is in can be left
MainStep ==
  \/ MainUpdate
  \/ PollButton
  \/ SwitchOff
  \/ WaitRelease1
  \/ SleepClearFlag
  \/ SleepCli
  \/ SleepSei
  \/ SleepCpu
  \/ SleepReturn
  \/ WaitRelease2

\* the CPU keeps executing, and the hardware serves a pending enabled
\* interrupt; the button is free to change or to stay as it is
SpecFair ==
  /\ Spec
  /\ WF_vars(MainStep)
  /\ WF_vars(Wake)
  /\ WF_vars(Isr)

\* ------------------------- the program's start state, without the button
\* the generator and the candle simulation from the start state of main
SpecBoot == InitMain /\ [][NextPrng]_vars

\* ================================================================ claims
\* one updateCandle call has been made in this step
Ticked == ticks' = ticks + 1

\* bit i of x
BitAt(x, i) == (x \div Bit(i)) % 2

\* the high 16 bits of m * r, formed from the two bytes of m
High16(m, r) == (((m \div 256) * r) + (((m % 256) * r) \div 256)) \div 256

\* C1: after every updateCandle call centerx and centery lie in [-100, 100],
\* and the clamp saturates: when the unclamped sum center + poke + (vel >> 2)
\* is above MAXDEV the stored value is +MAXDEV, when it is below -MAXDEV the
\* stored value is -MAXDEV.
C1_ClampSaturates ==
  [][Ticked =>
       LET sumx == centerx + movx' + (xvel \div 4)
           sumy == centery + movy' + (yvel \div 4)
       IN  /\ centerx' \in -100..100
           /\ centery' \in -100..100
           /\ sumx > MAXDEV => centerx' = MAXDEV
           /\ sumx < -MAXDEV => centerx' = -MAXDEV
           /\ sumy > MAXDEV => centery' = MAXDEV
           /\ sumy < -MAXDEV => centery' = -MAXDEV]_vars

\* a call has clamped x at the upper and y at the lower limit
C1_Witness ==
  /\ ticks > 0
  /\ rawx > MAXDEV /\ centerx = MAXDEV
  /\ rawy < -MAXDEV /\ centery = -MAXDEV

\* C2 as stated: after every updateCandle call uncalm is in [5120, 30720].
C2_AgitationInRange == ticks > 0 => uncalm \in 5120..30720

\* C2 as amended: after every updateCandle call uncalm is in [5120, 30720]
\* or exactly one increment outside it, 5100 or 30740.
C2_AgitationInRangeOrOneStep ==
  ticks > 0 => uncalm \in (5120..30720) \cup {5100, 30740}

\* uncalm has been above the range and is now below it
C2_Witness == ticks > 1281 /\ uncalm = 5100

\* C3: after every updateCandle call OCR0A = 155 + centerx and
\* OCR0B = 155 + centery, both in [55, 255]: nothing is lost in the 8-bit
\* register.
C3_DutyExact ==
  ticks > 0 =>
    /\ OCR0A = 155 + centerx
    /\ OCR0B = 155 + centery
    /\ OCR0A \in 55..255
    /\ OCR0B \in 55..255

\* both ends of the duty range are in use at once
C3_Witness == ticks > 0 /\ OCR0A = 255 /\ OCR0B = 55

\* C4: uncalm never exceeds MAXUNCALM + UNCALMINC, never falls below
\* MINUNCALM - UNCALMINC, and the 16-bit addition of line 82 never wraps: the
\* stored value is the sum of the old value and the direction.
C4_OvershootOneStep ==
  [][/\ uncalm' <= MAXUNCALM + UNCALMINC
     /\ uncalm' >= MINUNCALM - UNCALMINC
     /\ Ticked => uncalm' = uncalm + uncalmdir']_vars

\* uncalm is one increment above the upper bound, still going up
C4_Witness ==
  ticks > 0 /\ uncalm = MAXUNCALM + UNCALMINC /\ uncalmdir = UNCALMINC

\* C5: every prng call returns r with 0 <= r < maxvalue, for every register
\* value and the arguments in 1..65535 it is given; updateCandle passes an
\* argument >= 1 and both of its draws are below it.
C5_PrngBelowMaxvalue ==
  calls > 0 =>
    /\ maxvalue \in 1..65535
    /\ ret \in 0..(maxvalue - 1)
    /\ ticks > 0 => movx + (maxvalue \div 2) \in 0..(maxvalue - 1)
    /\ ticks > 0 => movy + (maxvalue \div 2) \in 0..(maxvalue - 1)

\* the largest argument with the largest return value
C5_Witness == calls > 0 /\ maxvalue = 65535 /\ ret = 65534

\* C6: from a non-zero start value rn never becomes zero and returns to the
\* start value after exactly 65535 calls, not earlier: the 65535 values in
\* between are pairwise distinct, hence all non-zero 16-bit values.
C6_FullPeriod ==
  seed # 0 =>
    /\ rn # 0
    /\ calls \in 1..65534 => rn # seed
    /\ calls = 65535 => rn = seed

\* the register is back at its start value
C6_Witness == seed # 0 /\ calls = 65535 /\ rn = seed

\* C7: one prng call replaces rn by (rn >> 1) XOR (0xB400 if the old low bit
\* was 1, else 0) and returns the high 16 bits of maxvalue * (new rn); for
\* rn = 1 and maxvalue = 20 the register becomes 0xB400 and the call
\* returns 14.
C7_PrngStep ==
  [][(calls' = calls + 1) =>
       LET t == IF rn % 2 = 1 THEN 46080 ELSE 0
       IN  /\ rn' \in 0..65535
           /\ \A i \in 0..15 :
                BitAt(rn', i) = (BitAt(rn \div 2, i) + BitAt(t, i)) % 2
           /\ ret' = High16(maxvalue', rn')
           /\ (rn = 1 /\ maxvalue' = 20) => (rn' = 46080 /\ ret' = 14)]_vars

\* the spec's example has been executed
C7_Witness ==
  seed = 1 /\ calls = 1 /\ maxvalue = 20 /\ rn = 46080 /\ ret = 14

\* C8: the velocity is scaled exactly in the updateCandle calls whose number
\* is a multiple of 4, also after cnt has wrapped from 255 to 0.
C8_DampingCadence ==
  ticks > 0 =>
    /\ damped <=> ticks % 4 = 0
    /\ damped <=> cnt % 4 = 0
    /\ cnt = ticks % 256

\* a scaling call after the counter has wrapped
C8_Witness == ticks = 260 /\ cnt = 4 /\ damped

\* C9 as stated: in every scaling call the products xvel * 999 and
\* yvel * 999 fit in a 16-bit int and the velocity before the spring term is
\* the old velocity times 999/1000, truncated toward zero.
C9_DampingExact ==
  [][(Ticked /\ damped') =>
       /\ xvel * 999 \in -32768..32767
       /\ yvel * 999 \in -32768..32767
       /\ xvel' + centerx' = TruncDiv(xvel * 999, 1000)
       /\ yvel' + centery' = TruncDiv(yvel * 999, 1000)]_vars

\* C10: while the CPU is halted in sleep_cpu() the LED pins are inputs, the
\* MOSFET output is low and the button has been read as released since the
\* press that started the sequence; whenever updateCandle is about to run the
\* LED pins are outputs and the MOSFET is on; sleep() is only executed inside
\* the button-pressed branch of main.
C10_PowerStateSafety ==
  /\ pc = "asleep" =>
       /\ And8(DDRB, LEDS) = 0
       /\ And8(PORTB, Bit(MOSFET)) = 0
       /\ pressRead /\ relRead
  /\ pc = "update" =>
       /\ And8(DDRB, LEDS) = LEDS
       /\ And8(DDRB, Bit(MOSFET)) = Bit(MOSFET)
       /\ And8(PORTB, Bit(MOSFET)) = Bit(MOSFET)
  /\ pc \in {"sleep", "cli", "sei", "sleepcpu", "asleep", "wake"} => pressRead

\* the CPU is halted after several ticks, the button released and no pin
\* change pending
C10_Witness == pc = "asleep" /\ pinb2 = 1 /\ pcif = 0 /\ ticks > 1

\* ------------------------------------------- the tick as a function
\* a XOR b on n bits, bit by bit
RECURSIVE XorSum(_, _, _)
XorSum(a, b, n) ==
  IF n = 0 THEN 0
  ELSE XorSum(a, b, n - 1)
       + Bit(n - 1) * ((BitAt(a, n - 1) + BitAt(b, n - 1)) % 2)

\* the shift/XOR rule of the generator
Shifted(r) == IF r % 2 = 1 THEN XorSum(r \div 2, 46080, 16) ELSE r \div 2

\* saturation to [-100, 100]
Saturate(c) == IF c < -100 THEN -100 ELSE IF c > 100 THEN 100 ELSE c

\* the persistent values of the simulation and the two duty registers
FlameNow ==
  [centerx |-> centerx, centery |-> centery, xvel |-> xvel, yvel |-> yvel,
   uncalm |-> uncalm, uncalmdir |-> uncalmdir, cnt |-> cnt, rn |-> rn,
   OCR0A |-> OCR0A, OCR0B |-> OCR0B]

\* the values at program start
FlameStart(r) ==
  [centerx |-> 100, centery |-> 50, xvel |-> 0, yvel |-> 0,
   uncalm |-> 5120, uncalmdir |-> 20, cnt |-> 0, rn |-> r,
   OCR0A |-> 0, OCR0B |-> 0]

\* one tick (steps 1-7 of the algorithm) as a function of the persistent
\* values f alone, for the build's overflow behaviour o
FlameStep(f, o) ==
  LET r1 == Shifted(f.rn)
      r2 == Shifted(r1)
      arg == f.uncalm \div 256
      mx == ToS16(High16(arg, r1) - (f.uncalm \div 512))
      my == ToS16(High16(arg, r2) - (f.uncalm \div 512))
      dir == IF f.uncalm > 30720 THEN -20
             ELSE IF f.uncalm < 5120 THEN 20 ELSE f.uncalmdir
      cx == Saturate(ToS16(f.centerx + mx + (f.xvel \div 4)))
      cy == Saturate(ToS16(f.centery + my + (f.yvel \div 4)))
      c == (f.cnt + 1) % 256
      scale(v) == IF o = "wrap" THEN TruncDiv(ToS16(v * 999), 1000)
                  ELSE TruncDiv(v * 999, 1000)
      vx == IF c % 4 = 0 THEN scale(f.xvel) ELSE f.xvel
      vy == IF c % 4 = 0 THEN scale(f.yvel) ELSE f.yvel
  IN  [centerx |-> cx, centery |-> cy,
       xvel |-> ToS16(vx - cx), yvel |-> ToS16(vy - cy),
       uncalm |-> (f.uncalm + dir) % 65536, uncalmdir |-> dir,
       cnt |-> c, rn |-> r2,
       OCR0A |-> (155 + cx) % 256, OCR0B |-> (155 + cy) % 256]

\* the values after k ticks of a run without any sleep cycle
RECURSIVE FlameAt(_, _, _)
FlameAt(k, r, o) ==
  IF k = 0 THEN FlameStart(r) ELSE FlameStep(FlameAt(k - 1, r, o), o)

\* C11: no step of main other than updateCandle (the button branch, sleep(),
\* the halt, the wake-up, the interrupt, button level changes) changes
\* centerx, centery, xvel, yvel, uncalm, uncalmdir, cnt, rn, OCR0A or OCR0B,
\* and after any number of sleep cycles these hold what a run of the same
\* number of ticks without sleep cycles gives.
C11_SleepPreservesFlame ==
  [][/\ ~Ticked => FlameNow' = FlameNow
     /\ FlameNow' = FlameAt(ticks', seed, mulovf)]_vars

\* a tick has run after a complete sleep cycle (sei() has been executed)
C11_Witness == pc = "poll" /\ iflag = 1 /\ se = 0 /\ ticks > 1

\* C14: every updateCandle call maps the persistent values (and rn) to the
\* next ones and to the duties as one function of those values alone, so two
\* runs from equal values give equal duty sequences.
C14_Deterministic == [][Ticked => FlameNow' = FlameStep(FlameNow, mulovf)]_vars

\* two runs with the same start value of rn: this is the one with the
\* button held, a full agitation period into the run
C14_Witness == ticks = 2564 /\ seed = 1 /\ pinb2 = 0

\* C15: uncalmdir is always +UNCALMINC or -UNCALMINC; it changes only in a
\* tick whose pre-update uncalm is outside [MINUNCALM, MAXUNCALM]; a tick
\* that starts below MINUNCALM leaves it at +UNCALMINC, one that starts above
\* MAXUNCALM at -UNCALMINC.
C15_DirectionFlips ==
  [][/\ uncalmdir' \in {UNCALMINC, -UNCALMINC}
     /\ uncalmdir' # uncalmdir =>
          Ticked /\ (uncalm < MINUNCALM \/ uncalm > MAXUNCALM)
     /\ (Ticked /\ uncalm < MINUNCALM) => uncalmdir' = UNCALMINC
     /\ (Ticked /\ uncalm > MAXUNCALM) => uncalmdir' = -UNCALMINC]_vars

\* the direction has turned down at the top and up again at the bottom
C15_Witness ==
  ticks > 1282 /\ uncalm = MINUNCALM /\ uncalmdir = UNCALMINC

C17_VelocityInRange ==
  [][Ticked =>
       LET vx == IF damped' THEN Attenuate(xvel, mulovf) ELSE xvel
           vy == IF damped' THEN Attenuate(yvel, mulovf) ELSE yvel
       IN  /\ xvel' \in -32767..32766
           /\ yvel' \in -32767..32766
           /\ xvel' = vx - centerx'
           /\ yvel' = vy - centery'
           /\ rawx' = centerx + movx' + (xvel \div 4)
           /\ rawy' = centery + movy' + (yvel \div 4)]_vars

\* a scaling tick that leaves a large velocity
C17_Witness == ticks > 0 /\ damped /\ xvel < -300 /\ mulovf = "exact"

\* C18: no wake-up is lost: when the CPU is halted in sleep_cpu() and the
\* button pin has changed level since sleep() cleared the pin-change flag
\* (line 114), the pin-change interrupt is pending and enabled, so the halt
\* ends; the device never sleeps through such a level change.
C18_NoLostWakeup ==
  (pc = "asleep" /\ lvlchg) => (iflag = 1 /\ pcif = 1)

\* C12 as stated: every press-then-release causes exactly one power
\* transition, so whenever main polls the button and reads it released, the
\* halts and wake-ups so far are as many as the presses so far.
C12_OneTransitionPerPress ==
  [][(pc = "poll" /\ pc' = "update") => naps + wakes = presses]_vars

\* C12 amended: a press causes at most one power transition, and exactly
\* one when main reads it: halts and wake-ups alternate and never outnumber
\* the presses, a poll that reads the button pressed reads a press that has
\* caused no transition yet, and once the button stays released a press
\* read while running ends with the CPU halted and a pin change that ends
\* the halt ends in the main loop.
C12_OneTransitionPerPolledPress ==
  /\ [](wakes <= naps /\ naps <= wakes + 1 /\ naps + wakes <= presses)
  /\ [][(pc = "poll" /\ pc' = "off") => naps + wakes < presses]_vars
  /\ <>[](pinb2 = 1) => ((pc = "off") ~> (pc = "asleep"))
  /\ <>[](pinb2 = 1) => ((pc = "wake") ~> (pc = "update"))

\* two presses, the first has halted the CPU and the second has ended the
\* halt, and main is about to poll the released button
C12_Witness ==
  pc = "poll" /\ pinb2 = 1 /\ presses = 2 /\ naps = 1 /\ wakes = 1

\* C13: the halt is left only by the pin change interrupt, which only a
\* level change of the button pin since line 114 makes pending (no timeout,
\* no other wake source: with nothing pending the CPU stays halted); and a
\* level change while the CPU is halted leads back to the main loop once
\* the button stays released.
C13_WakeIffLevelChange ==
  /\ [][(pc = "asleep" /\ pc' # "asleep") =>
         (lvlchg /\ pcif = 1 /\ pc' = "wake")]_vars
  /\ [][(pc = "asleep" /\ pinb2' = pinb2) => pcif = 1]_vars
  /\ <>[](pinb2 = 1) => ((pc = "asleep" /\ pcif = 1) ~> (pc = "update"))

\* back in the main loop after the second halt was ended
C13_Witness == pc = "update" /\ wakes = 2 /\ pinb2 = 1

====
